---- MODULE Spec2Model ----
(***************************************************************************)
(* ResilientPrismaClient: the connection manager of prisma-resilient-client *)
(* as a state machine.  Every `await` of the TypeScript source is a point   *)
(* where another asynchronous activity of the same manager may run, so each *)
(* action below is one synchronous segment between two awaits.              *)
(***************************************************************************)
EXTENDS Integers, Sequences, FiniteSets, TLC

(* ------------------------------------------------------------------------ *)
(* Bounds of the model                                                       *)
(* ------------------------------------------------------------------------ *)

\* activities started over the manager's life after its construction:
\* caller operations and timer ticks together
MaxActivities == 2

\* largest reconnect.maxAttempts the configurations range over
MaxAttemptsCfg == 2

\* the attempts a backoff delay is computed for
MaxBackoffAttempt == 6

(* ------------------------------------------------------------------------ *)
(* Program constants                                                         *)
(* ------------------------------------------------------------------------ *)

DEFAULT_MAX_ATTEMPTS == 3

DEFAULT_INITIAL_DELAY == 1000

DEFAULT_MAX_DELAY == 10000

(* ------------------------------------------------------------------------ *)
(* Text: a string is the sequence of its characters                          *)
(* ------------------------------------------------------------------------ *)

UpperCase == <<"A","B","C","D","E","F","G","H","I","J","K","L","M","N","O","P","Q","R","S","T","U","V","W","X","Y","Z">>

LowerCase == <<"a","b","c","d","e","f","g","h","i","j","k","l","m","n","o","p","q","r","s","t","u","v","w","x","y","z">>

\* as toLowerCase, but the text is left as it is
toLowerCaseSkipped(s) == s

\* String.prototype.toLowerCase, character by character
toLowerCase(s) ==
  [i \in 1..Len(s) |->
     IF \E k \in 1..26 : UpperCase[k] = s[i]
     THEN LowerCase[CHOOSE k \in 1..26 : UpperCase[k] = s[i]]
     ELSE s[i]]

\* String.prototype.includes
includes(s, kw) ==
  \E i \in 1..(Len(s) - Len(kw) + 1) : SubSeq(s, i, i + Len(kw) - 1) = kw

\* String(n) for a number n below 1000
DigitsOf(n) ==
  LET d == <<"0","1","2","3","4","5","6","7","8","9">>
  IN  IF n < 10 THEN <<d[n + 1]>>
      ELSE IF n < 100 THEN <<d[(n \div 10) + 1], d[(n % 10) + 1]>>
      ELSE <<d[(n \div 100) + 1], d[((n \div 10) % 10) + 1], d[(n % 10) + 1]>>

(* ------------------------------------------------------------------------ *)
(* Error values and the classifier (utils/errors)                            *)
(* ------------------------------------------------------------------------ *)

\* A JavaScript value as the utilities see it.  t is what typeof and the null
\* test tell; str, num and bool hold a primitive's content; for an object,
\* code is its code field ("" when it has none), mt says whether it has a
\* message field and of which type, message holds a string message, num a
\* numeric one, and inst says whether it is an instance of Error.
JsValue(t, str, num, bool, code, mt, message, inst) ==
  [t |-> t, str |-> str, num |-> num, bool |-> bool,
   code |-> code, mt |-> mt, message |-> message, inst |-> inst]

JsNull == JsValue("null", <<>>, 0, FALSE, "", "absent", <<>>, FALSE)

JsUndefined == JsValue("undefined", <<>>, 0, FALSE, "", "absent", <<>>, FALSE)

JsString(s) == JsValue("string", s, 0, FALSE, "", "absent", <<>>, FALSE)

JsNumber(n) == JsValue("number", <<>>, n, FALSE, "", "absent", <<>>, FALSE)

JsBoolean(b) == JsValue("boolean", <<>>, 0, b, "", "absent", <<>>, FALSE)

\* a plain object { code, message } with a string message
MkError(code, message) == JsValue("object", <<>>, 0, FALSE, code, "string", message, FALSE)

\* new Error(message)
NewError(message) == JsValue("object", <<>>, 0, FALSE, "", "string", message, TRUE)

\* a plain object { code } without a message field
CodeOnly(code) == JsValue("object", <<>>, 0, FALSE, code, "absent", <<>>, FALSE)

\* a plain object { code, message: n } whose message is a number
NumericMessage(code, n) == JsValue("object", <<>>, n, FALSE, code, "number", <<>>, FALSE)

NoError == JsNull

\* !value
Falsy(v) ==
  \/ v.t \in {"null", "undefined"}
  \/ v.t = "string" /\ v.str = <<>>
  \/ v.t = "number" /\ v.num = 0
  \/ v.t = "boolean" /\ ~v.bool

CONNECTION_ERROR_CODES == {"P1001", "P1008", "P1017", "P2024"}

connectionKeywords ==
  { <<"c","o","n","n","e","c","t","i","o","n">>,
    <<"c","o","n","n","e","c","t">>,
    <<"d","i","s","c","o","n","n","e","c","t">>,
    <<"e","c","o","n","n","r","e","f","u","s","e","d">>,
    <<"e","t","i","m","e","d","o","u","t">>,
    <<"e","n","o","t","f","o","u","n","d">>,
    <<"s","o","c","k","e","t">>,
    <<"n","e","t","w","o","r","k">> }

\* isConnectionError ends with a TypeError: err.message?.toLowerCase() is
\* reached with a message that is neither nullish nor a string
isConnectionErrorThrows(error) ==
  /\ ~Falsy(error)
  /\ error.t = "object"
  /\ ~(error.code # "" /\ error.code \in CONNECTION_ERROR_CODES)
  /\ error.mt = "number"

\* what isConnectionError returns when it returns
isConnectionError(error) ==
  IF Falsy(error) \/ error.t # "object"
  THEN FALSE
  ELSE IF error.code # "" /\ error.code \in CONNECTION_ERROR_CODES
       THEN TRUE
       ELSE LET message == IF error.mt = "string" THEN toLowerCase(error.message) ELSE <<>>
            IN  \E keyword \in connectionKeywords : includes(message, keyword)

isRetryableError(error) == isConnectionError(error)

\* String(value)
StringOf(v) ==
  CASE v.t = "null" -> <<"n","u","l","l">>
    [] v.t = "undefined" -> <<"u","n","d","e","f","i","n","e","d">>
    [] v.t = "string" -> v.str
    [] v.t = "number" -> DigitsOf(v.num)
    [] v.t = "boolean" -> IF v.bool THEN <<"t","r","u","e">> ELSE <<"f","a","l","s","e">>
    [] OTHER -> <<"[","o","b","j","e","c","t"," ","O","b","j","e","c","t","]">>

getErrorMessage(error) ==
  IF Falsy(error)
  THEN <<"U","n","k","n","o","w","n"," ","e","r","r","o","r">>
  ELSE IF error.t = "string"
       THEN error.str
       ELSE IF error.t = "object" /\ error.inst
            THEN error.message
            ELSE IF error.t = "object" /\ error.mt # "absent"
                 THEN (IF error.mt = "string" THEN error.message ELSE DigitsOf(error.num))
                 ELSE StringOf(error)

\* new Error(`Failed to reconnect after ${maxAttempts} attempts: ${getErrorMessage(error)}`)
ExhaustionError(maxAttempts, error) ==
  NewError(
    <<"F","a","i","l","e","d"," ","t","o"," ","r","e","c","o","n","n","e","c","t"," ","a","f","t","e","r"," ">>
    \o DigitsOf(maxAttempts)
    \o <<" ","a","t","t","e","m","p","t","s",":"," ">>
    \o getErrorMessage(error))

(* ------------------------------------------------------------------------ *)
(* The values the environment supplies                                       *)
(* ------------------------------------------------------------------------ *)

\* P1001: the database server cannot be reached (recoverable by its code)
ErrUnreachable == MkError("P1001", <<"E","r","r","o","r">>)

\* P2002: a unique constraint failed (not recoverable)
ErrUnique == MkError("P2002", <<"U","n","i","q","u","e"," ","c","o","n","s","t","r","a","i","n","t">>)

\* what a failing onError handler throws
ErrHandler == NewError( <<"h","a","n","d","l","e","r"," ","f","a","i","l","e","d">>)

\* what a failing event subscriber throws
ErrListener == NewError( <<"s","u","b","s","c","r","i","b","e","r"," ","f","a","i","l","e","d">>)

\* what a thunk may reject with
ThunkErrors == {ErrUnreachable, ErrUnique}

\* what the underlying $connect may reject with
ConnectErrors == {ErrUnreachable}

\* the wrapped errors ensureConnected can throw under configuration maximum n
IsExhaustionError(e, n) == \E inner \in ConnectErrors : e = ExhaustionError(n, inner)

\* what a thunk may resolve with
Values == {"rowA", "rowB"}

Callers == {"c1", "c2"}

EventNames ==
  {"connect", "disconnect", "reconnect", "reconnect:success", "reconnect:failed",
   "memory:high", "gc:executed"}

Tasks == Callers \cup {"init", "refresh", "health"}

\* the events for which the configurations register a subscriber that throws
ThrowingListeners == EventNames

(* ------------------------------------------------------------------------ *)
(* Backoff (utils/backoff)                                                   *)
(* ------------------------------------------------------------------------ *)

RECURSIVE Pow2(_)
Pow2(n) == IF n <= 0 THEN 1 ELSE 2 * Pow2(n - 1)

Min(a, b) == IF a <= b THEN a ELSE b

\* as calculateBackoff, but the delay is not capped
calculateBackoffUncapped(attempt, initialDelay, maxDelay, strategy) ==
  IF strategy = "exponential"
  THEN initialDelay * Pow2(attempt - 1)
  ELSE initialDelay * attempt

calculateBackoff(attempt, initialDelay, maxDelay, strategy) ==
  LET delay == IF strategy = "exponential"
               THEN initialDelay * Pow2(attempt - 1)
               ELSE initialDelay * attempt
  IN  Min(delay, maxDelay)

(* ------------------------------------------------------------------------ *)
(* State                                                                     *)
(* ------------------------------------------------------------------------ *)

VARIABLES
  connected,                 \* this.connected
  reconnectAttempts,         \* this.reconnectAttempts
  totalReconnects,           \* this.totalReconnects
  lastSuccessfulConnection,  \* 0 is null; k > 0 is the time of the k-th successful connect
  queryCount,                \* this.queryCount
  errorCount,                \* this.errorCount
  refreshTimer,              \* this.refreshTimer is set
  healthCheckTimer,          \* this.healthCheckTimer is set
  emitted,                   \* how often each event has been emitted
  lastPrimitive,             \* the underlying $connect/$disconnect that completed last
  task,                      \* where each asynchronous activity stands
  call,                      \* per caller: what its current (or last) call has done
  cfg,                       \* the configuration the manager was constructed with
  started,                   \* caller operations and timer ticks started so far
  history,                   \* how the initial $connect ended, the shutdown() calls made, the age at the last refresh tick
  prisma,                    \* this.prisma: which underlying handle the manager holds
  util                       \* the call of a utility function under examination

stats == <<totalReconnects, lastSuccessfulConnection, queryCount, errorCount>>

timers == <<refreshTimer, healthCheckTimer>>

\* what no method assigns after the constructor has run
fixed == <<cfg, prisma, util>>

budget == <<fixed, started, history>>

vars == <<connected, reconnectAttempts, totalReconnects, lastSuccessfulConnection,
          queryCount, errorCount, refreshTimer, healthCheckTimer, emitted,
          lastPrimitive, task, call, cfg, started, history, prisma, util>>

IdleTask == [pc |-> "idle", ret |-> "none", attempt |-> 0, err |-> NoError, delay |-> 0]

Pending == [kind |-> "pending", val |-> "", err |-> NoError]

Resolved(v) == [kind |-> "ok", val |-> v, err |-> NoError]

Rejected(e) == [kind |-> "err", val |-> "", err |-> e]

\* The record of a call that has just begun.  thunks lists the outcomes of the
\* thunk's invocations, ensures those of the ensureConnected() runs awaited,
\* connects counts the underlying $connect calls issued and connOk those that
\* resolved, seq numbers the activities in the order they start, and heap is
\* the heap usage when the thunk resolved, for a manager with memory.autoGC.
NewCall(op) ==
  [op |-> op, outcome |-> Pending, thunks |-> <<>>, ensures |-> <<>>, invoked |-> 0,
   protocols |-> 0, connects |-> 0, connOk |-> 0, handlers |-> 0, failures |-> 0,
   qInc |-> 0, eInc |-> 0, seq |-> 0, heap |-> "none"]

\* the record of the call caller p begins now
BeginCall(p, op) ==
  [NewCall(op) EXCEPT !.seq = started + 1]

Emit(em, e) == [em EXCEPT ![e] = @ + 1]

\* reconnect.maxAttempts || 3
maxAttempts == IF cfg.maxAttempts = 0 THEN DEFAULT_MAX_ATTEMPTS ELSE cfg.maxAttempts

\* The configurations the model ranges over: every reconnect.maxAttempts with
\* and without an error handler (which may return or throw) while the timers
\* and the memory check are switched off, each of those features switched
\* on for a configuration without handler, and a subscriber that throws
\* registered for one event.  exposeGC says whether the process was started
\* with a global gc(); listener names the event whose subscriber throws.
\* reconnect.hardResetOnFinalAttempt and reconnect.maxConsecutiveErrors are
\* the options the README documents (10 is the documented default); they are
\* set where they can matter: the former with more than one attempt, the
\* latter, to 2, with a single attempt.  No method reads either.
AllConfigs ==
  [maxAttempts : 1..MaxAttemptsCfg,
   onError : {"none", "handler"},
   refreshEnabled : BOOLEAN,
   healthCheckEnabled : BOOLEAN,
   autoGC : BOOLEAN,
   exposeGC : BOOLEAN,
   listener : {"none"} \cup EventNames,
   hardResetOnFinalAttempt : BOOLEAN,
   maxConsecutiveErrors : {2, 10}]

Configs ==
  { c \in AllConfigs :
     /\ c.hardResetOnFinalAttempt = (c.maxAttempts > 1)
     /\ c.maxConsecutiveErrors = (IF c.maxAttempts = 1 THEN 2 ELSE 10)
     /\
      \/ /\ c.listener = "none"
         /\ ~c.refreshEnabled /\ ~c.healthCheckEnabled /\ ~c.autoGC /\ ~c.exposeGC
      \/ /\ c.listener = "none" /\ c.onError = "none"
         /\ c.refreshEnabled /\ c.healthCheckEnabled /\ ~c.autoGC /\ ~c.exposeGC
      \/ /\ c.listener = "none" /\ c.onError = "none" /\ c.maxAttempts = 1
         /\ ~c.refreshEnabled /\ ~c.healthCheckEnabled /\ c.autoGC
      \/ /\ c.listener \in ThrowingListeners /\ c.onError = "none" /\ c.maxAttempts = 1
         /\ ~c.refreshEnabled /\ ~c.healthCheckEnabled
         /\ c.autoGC = (c.listener \in {"memory:high", "gc:executed"})
         /\ c.exposeGC = c.autoGC }

\* the subscriber registered for event e throws
Throws(e) == cfg.listener = e

\* no utility function is under examination
NoUtil == [fn |-> "none"]

\* The constructor has run: the fields hold their initial values and
\* initialize() has issued the first $connect and awaits it.
Constructed ==
  /\ connected = FALSE
  /\ reconnectAttempts = 0
  /\ totalReconnects = 0
  /\ lastSuccessfulConnection = 0
  /\ queryCount = 0
  /\ errorCount = 0
  /\ refreshTimer = FALSE
  /\ healthCheckTimer = FALSE
  /\ emitted = [e \in EventNames |-> 0]
  /\ lastPrimitive = "none"
  /\ task = [p \in Tasks |-> IF p = "init" THEN [IdleTask EXCEPT !.pc = "init_conn"] ELSE IdleTask]
  /\ call = [p \in Callers |-> NewCall("none")]
  /\ cfg \in Configs
  /\ started = 0
  /\ history = [init |-> "pending", shutdowns |-> 0, aged |-> FALSE]
  /\ prisma = 0

Init ==
  /\ Constructed
  /\ util = NoUtil

\* a counter of caller p's call record goes up by one (other tasks keep no record)
Count(p, field) == IF p \in Callers THEN [call EXCEPT ![p][field] = @ + 1] ELSE call

(* ------------------------------------------------------------------------ *)
(* connect() and disconnect()                                                *)
(* ------------------------------------------------------------------------ *)

\* as AfterDisconnect, but the attempt goes on to connect without the backoff wait
AfterDisconnectSkipsBackoff(t) ==
  CASE t.pc = "ec_disc" -> [t EXCEPT !.pc = "ec_conn"]
    [] t.pc = "rf_disc" -> [t EXCEPT !.pc = "rf_disc_ret"]
    [] OTHER -> IdleTask

\* where a task goes on once the disconnect() it awaits has returned
AfterDisconnect(t) ==
  CASE t.pc = "ec_disc" ->
         [t EXCEPT !.pc = "ec_sleep",
                   !.delay = calculateBackoff(t.attempt, DEFAULT_INITIAL_DELAY,
                                              DEFAULT_MAX_DELAY, "exponential")]
    [] t.pc = "rf_disc" -> [t EXCEPT !.pc = "rf_disc_ret"]
    [] OTHER -> IdleTask

\* as disconnect, but a $disconnect that rejects leaves the flag as it is
disconnectKeepsFlagOnFailure(p, ok) ==
  /\ task[p].pc \in {"ec_disc", "rf_disc", "sd_disc", "pt_disc"}
  /\ connected' = IF ok THEN FALSE ELSE connected
  /\ lastPrimitive' = "disconnect"
  /\ task' = [task EXCEPT ![p] = AfterDisconnect(@)]
  /\ call' = IF task[p].pc \in {"sd_disc", "pt_disc"}
             THEN [call EXCEPT ![p].outcome = Resolved("undefined")]
             ELSE call
  /\ UNCHANGED <<reconnectAttempts, stats, timers, emitted, budget>>

\* disconnect(): the underlying $disconnect resolves (ok) or rejects; either way
\* the flag is cleared and nothing is thrown
disconnect(p, ok) ==
  /\ task[p].pc \in {"ec_disc", "rf_disc", "sd_disc", "pt_disc"}
  /\ connected' = FALSE
  /\ lastPrimitive' = "disconnect"
  /\ task' = [task EXCEPT ![p] = AfterDisconnect(@)]
  /\ call' = IF task[p].pc \in {"sd_disc", "pt_disc"}
             THEN [call EXCEPT ![p].outcome = Resolved("undefined")]
             ELSE call
  /\ UNCHANGED <<reconnectAttempts, stats, timers, emitted, budget>>

\* where a task goes on once the connect() it awaits has thrown e
AfterConnectThrows(t, e) ==
  IF t.pc = "ec_conn" THEN [t EXCEPT !.pc = "ec_conn_fail", !.err = e] ELSE IdleTask

\* the record of caller p's call after an underlying $connect that resolved or
\* not (ok) and a connect() that ended with o when called through the handle
AfterConnectCall(p, ok, o) ==
  IF p \in Callers
  THEN [call EXCEPT ![p].connOk = IF ok THEN @ + 1 ELSE @,
                    ![p].outcome = IF task[p].pc = "pt_conn" THEN o ELSE @]
  ELSE call

\* how the initial $connect of initialize() ended, when task p is that one
AfterInitConnect(p, how) ==
  IF task[p].pc = "init_conn" THEN [history EXCEPT !.init = how] ELSE history

\* connect(): the underlying $connect resolves; a 'connect' subscriber that
\* throws lands in the catch of connect()
connectResolves(p) ==
  /\ task[p].pc \in {"ec_conn", "init_conn", "pt_conn"}
  /\ lastSuccessfulConnection' = lastSuccessfulConnection + 1
  /\ reconnectAttempts' = 0
  /\ lastPrimitive' = "connect"
  /\ history' = AfterInitConnect(p, "resolved")
  /\ IF Throws("connect")
     THEN /\ connected' = FALSE
          /\ emitted' = Emit(Emit(emitted, "connect"), "disconnect")
          /\ task' = [task EXCEPT ![p] = AfterConnectThrows(@, ErrListener)]
          /\ call' = AfterConnectCall(p, TRUE, Rejected(ErrListener))
     ELSE /\ connected' = TRUE
          /\ emitted' = Emit(emitted, "connect")
          /\ task' = [task EXCEPT ![p] =
                        CASE @.pc = "ec_conn" -> [@ EXCEPT !.pc = "ec_conn_ok"]
                          [] @.pc = "init_conn" -> [@ EXCEPT !.pc = "init_ok"]
                          [] OTHER -> IdleTask]
          /\ call' = AfterConnectCall(p, TRUE, Resolved("undefined"))
  /\ UNCHANGED <<totalReconnects, queryCount, errorCount, timers, fixed, started>>

\* as connectRejects, but the catch of connect() leaves the flag as it is
connectRejectsKeepsFlag(p, e) ==
  /\ task[p].pc \in {"ec_conn", "init_conn", "pt_conn"}
  /\ connected' = connected
  /\ emitted' = Emit(emitted, "disconnect")
  /\ lastPrimitive' = "connect_failed"
  /\ history' = AfterInitConnect(p, "rejected")
  /\ LET thrown == IF Throws("disconnect") THEN ErrListener ELSE e
     IN  /\ task' = [task EXCEPT ![p] = AfterConnectThrows(@, thrown)]
         /\ call' = AfterConnectCall(p, FALSE, Rejected(thrown))
  /\ UNCHANGED <<reconnectAttempts, stats, timers, fixed, started>>

\* connect(): the underlying $connect rejects with e; a 'disconnect' subscriber
\* that throws replaces the error connect() rethrows
connectRejects(p, e) ==
  /\ task[p].pc \in {"ec_conn", "init_conn", "pt_conn"}
  /\ connected' = FALSE
  /\ emitted' = Emit(emitted, "disconnect")
  /\ lastPrimitive' = "connect_failed"
  /\ history' = AfterInitConnect(p, "rejected")
  /\ LET thrown == IF Throws("disconnect") THEN ErrListener ELSE e
     IN  /\ task' = [task EXCEPT ![p] = AfterConnectThrows(@, thrown)]
         /\ call' = AfterConnectCall(p, FALSE, Rejected(thrown))
  /\ UNCHANGED <<reconnectAttempts, stats, timers, fixed, started>>

(* ------------------------------------------------------------------------ *)
(* ensureConnected()                                                         *)
(* ------------------------------------------------------------------------ *)

\* the start of attempt n of the loop, up to the await of disconnect(): a
\* 'reconnect' subscriber that throws ends ensureConnected() there
attemptStart(t, n) ==
  IF Throws("reconnect")
  THEN [t EXCEPT !.pc = "ec_throw", !.attempt = n, !.err = ErrListener]
  ELSE [t EXCEPT !.pc = "ec_disc", !.attempt = n]

\* as ensureConnected, but the protocol is run whatever the state
ensureConnectedAlways(ret, conn) ==
  attemptStart([IdleTask EXCEPT !.ret = ret], 1)

\* ensureConnected() up to its first await, entered while this.connected is conn:
\* it returns at once, or starts attempt 1 and awaits disconnect()
ensureConnected(ret, conn) ==
  IF conn
  THEN [IdleTask EXCEPT !.pc = "ec_ret", !.ret = ret]
  ELSE attemptStart([IdleTask EXCEPT !.ret = ret], 1)

\* the backoff sleep is over: connect() issues the underlying $connect
sleepDone(p) ==
  /\ task[p].pc = "ec_sleep"
  /\ task' = [task EXCEPT ![p].pc = "ec_conn"]
  /\ call' = Count(p, "connects")
  /\ UNCHANGED <<connected, reconnectAttempts, stats, timers, emitted, lastPrimitive, budget>>

\* as attemptLoopCatch, but the loop makes one attempt more than configured
attemptLoopCatchOneMore(p, e, em) ==
  IF task[p].attempt = maxAttempts + 1
  THEN /\ emitted' = Emit(em, "reconnect:failed")
       /\ task' = [task EXCEPT ![p].pc = "ec_throw",
                               ![p].err = IF Throws("reconnect:failed")
                                          THEN ErrListener
                                          ELSE ExhaustionError(maxAttempts, e)]
       /\ UNCHANGED reconnectAttempts
  ELSE /\ reconnectAttempts' = task[p].attempt + 1
       /\ emitted' = Emit(em, "reconnect")
       /\ task' = [task EXCEPT ![p] = attemptStart(@, @.attempt + 1)]

\* the catch of the attempt loop for error e, after the events em: the last
\* attempt throws the wrapped error, any other goes on with the next attempt
attemptLoopCatch(p, e, em) ==
  IF task[p].attempt = maxAttempts
  THEN /\ emitted' = Emit(em, "reconnect:failed")
       /\ task' = [task EXCEPT ![p].pc = "ec_throw",
                               ![p].err = IF Throws("reconnect:failed")
                                          THEN ErrListener
                                          ELSE ExhaustionError(maxAttempts, e)]
       /\ UNCHANGED reconnectAttempts
  ELSE /\ reconnectAttempts' = task[p].attempt + 1
       /\ emitted' = Emit(em, "reconnect")
       /\ task' = [task EXCEPT ![p] = attemptStart(@, @.attempt + 1)]

\* connect() has returned inside the attempt loop; a 'reconnect:success'
\* subscriber that throws lands in the catch of the loop
ensureConnectedSucceeds(p) ==
  /\ task[p].pc = "ec_conn_ok"
  /\ totalReconnects' = totalReconnects + 1
  /\ IF Throws("reconnect:success")
     THEN attemptLoopCatch(p, ErrListener, Emit(emitted, "reconnect:success"))
     ELSE /\ emitted' = Emit(emitted, "reconnect:success")
          /\ task' = [task EXCEPT ![p].pc = "ec_ret"]
          /\ UNCHANGED reconnectAttempts
  /\ UNCHANGED <<connected, lastSuccessfulConnection, queryCount,
                 errorCount, timers, lastPrimitive, call, budget>>

\* connect() has thrown inside the attempt loop
ensureConnectedCatch(p) ==
  /\ task[p].pc = "ec_conn_fail"
  /\ attemptLoopCatch(p, task[p].err, emitted)
  /\ UNCHANGED <<connected, stats, timers, lastPrimitive, call, budget>>

\* a call of ensureConnected() by task p while this.connected is conn, after the
\* events em: the task awaits its outcome
callEnsureConnected(p, ret, conn, em) ==
  /\ task' = [task EXCEPT ![p] = ensureConnected(ret, conn)]
  /\ reconnectAttempts' = IF conn THEN reconnectAttempts ELSE 1
  /\ emitted' = IF conn THEN em ELSE Emit(em, "reconnect")

(* ------------------------------------------------------------------------ *)
(* executeWithReconnect()                                                    *)
(* ------------------------------------------------------------------------ *)

\* a caller invokes an operation of the wrapped client
executeWithReconnect(p) ==
  /\ p \in Callers
  /\ task[p].pc = "idle"
  /\ started < MaxActivities
  /\ started' = started + 1
  /\ callEnsureConnected(p, "exec_first", connected, emitted)
  /\ call' = [call EXCEPT ![p] =
                [BeginCall(p, "execute") EXCEPT !.protocols = IF connected THEN 0 ELSE 1]]
  /\ UNCHANGED <<connected, stats, timers, lastPrimitive, fixed, history>>

\* ensureConnected() has returned: operation() is invoked (first time or retry)
invokeOperation(p) ==
  /\ task[p].pc = "ec_ret"
  /\ task[p].ret \in {"exec_first", "exec_retry"}
  /\ task' = [task EXCEPT ![p].pc = "thunk"]
  /\ call' = [call EXCEPT ![p].invoked = @ + 1, ![p].ensures = Append(@, "ok")]
  /\ UNCHANGED <<connected, reconnectAttempts, stats, timers, emitted, lastPrimitive, budget>>

\* as recordSuccess, but the error total is cleared like a consecutive-error count
recordSuccessResetsErrors ==
  /\ queryCount' = queryCount + 1
  /\ errorCount' = 0

\* the statistics update of a successful first invocation
recordSuccess ==
  /\ queryCount' = queryCount + 1
  /\ errorCount' = errorCount

\* the heap usage at the moment a thunk resolves, against memory.gcThreshold
Sampled(heapHigh) ==
  IF ~cfg.autoGC THEN "none" ELSE IF heapHigh THEN "high" ELSE "low"

\* the events of the memory check after a successful first invocation, up to
\* the first subscriber that throws
memoryCheck(heapHigh) ==
  IF cfg.autoGC /\ heapHigh
  THEN IF cfg.exposeGC /\ ~Throws("memory:high")
       THEN Emit(Emit(emitted, "memory:high"), "gc:executed")
       ELSE Emit(emitted, "memory:high")
  ELSE emitted

\* a subscriber throws inside the memory check
memoryCheckThrows(heapHigh) ==
  /\ cfg.autoGC
  /\ heapHigh
  /\ Throws("memory:high") \/ (cfg.exposeGC /\ Throws("gc:executed"))

\* what execute() resolves with when the first invocation resolved with v
resultOf(v) == Resolved(v)

\* lines 254-266, after the error handler (if any) has returned and the events
\* em: a recoverable error marks the manager disconnected and starts the retry
\* (unless a 'disconnect' subscriber throws), any other is thrown
classifyAndRetry(p, e, c, em) ==
  IF isRetryableError(e)
  THEN /\ connected' = FALSE
       /\ IF Throws("disconnect")
          THEN /\ emitted' = Emit(em, "disconnect")
               /\ task' = [task EXCEPT ![p] = IdleTask]
               /\ call' = [call EXCEPT ![p] = [c EXCEPT !.outcome = Rejected(ErrListener)]]
               /\ UNCHANGED reconnectAttempts
          ELSE /\ callEnsureConnected(p, "exec_retry", FALSE, Emit(em, "disconnect"))
               /\ call' = [call EXCEPT ![p] = [c EXCEPT !.protocols = @ + 1]]
  ELSE /\ task' = [task EXCEPT ![p] = IdleTask]
       /\ call' = [call EXCEPT ![p] = [c EXCEPT !.outcome = Rejected(e)]]
       /\ emitted' = em
       /\ UNCHANGED <<connected, reconnectAttempts>>

\* the catch block of executeWithReconnect for error e after the events em, up
\* to the await of the error handler when one is configured
catchBlock(p, e, c, em) ==
  /\ errorCount' = errorCount + 1
  /\ IF cfg.onError # "none"
     THEN /\ task' = [task EXCEPT ![p] = [@ EXCEPT !.pc = "handler", !.err = e]]
          /\ call' = [call EXCEPT ![p] = [c EXCEPT !.eInc = @ + 1, !.handlers = @ + 1]]
          /\ emitted' = em
          /\ UNCHANGED <<connected, reconnectAttempts>>
     ELSE classifyAndRetry(p, e, [c EXCEPT !.eInc = @ + 1], em)

\* the first invocation of the thunk resolves with v; a subscriber that throws
\* inside the memory check lands in the catch block
operationResolves(p, v, heapHigh) ==
  /\ task[p].pc = "thunk"
  /\ task[p].ret = "exec_first"
  /\ LET c == [call[p] EXCEPT !.thunks = Append(@, Resolved(v)), !.qInc = @ + 1,
                               !.heap = Sampled(heapHigh)]
     IN  IF memoryCheckThrows(heapHigh)
         THEN /\ queryCount' = queryCount + 1
              /\ catchBlock(p, ErrListener, [c EXCEPT !.failures = @ + 1],
                            memoryCheck(heapHigh))
         ELSE /\ recordSuccess
              /\ emitted' = memoryCheck(heapHigh)
              /\ task' = [task EXCEPT ![p] = IdleTask]
              /\ call' = [call EXCEPT ![p] = [c EXCEPT !.outcome = resultOf(v)]]
              /\ UNCHANGED <<connected, reconnectAttempts>>
  /\ UNCHANGED <<totalReconnects, lastSuccessfulConnection, timers, lastPrimitive, budget>>

\* the first invocation of the thunk rejects with e
operationRejects(p, e) ==
  /\ task[p].pc = "thunk"
  /\ task[p].ret = "exec_first"
  /\ catchBlock(p, e, [call[p] EXCEPT !.thunks = Append(@, Rejected(e)), !.failures = @ + 1],
                emitted)
  /\ UNCHANGED <<totalReconnects, lastSuccessfulConnection, queryCount, timers,
                 lastPrimitive, budget>>

\* the ensureConnected() at the start of execute rejects: same catch block
ensureRejectsInExecute(p) ==
  /\ task[p].pc = "ec_throw"
  /\ task[p].ret = "exec_first"
  /\ catchBlock(p, task[p].err,
                [call[p] EXCEPT !.failures = @ + 1, !.ensures = Append(@, "err")],
                emitted)
  /\ UNCHANGED <<totalReconnects, lastSuccessfulConnection, queryCount, timers,
                 lastPrimitive, budget>>

\* the awaited error handler returns
onErrorReturns(p) ==
  /\ task[p].pc = "handler"
  /\ classifyAndRetry(p, task[p].err, call[p], emitted)
  /\ UNCHANGED <<stats, timers, lastPrimitive, budget>>

\* the awaited error handler throws (or its promise rejects)
onErrorThrows(p) ==
  /\ task[p].pc = "handler"
  /\ cfg.onError = "handler"
  /\ task' = [task EXCEPT ![p] = IdleTask]
  /\ call' = [call EXCEPT ![p].outcome = Rejected(ErrHandler)]
  /\ UNCHANGED <<connected, reconnectAttempts, stats, timers, emitted, lastPrimitive, budget>>

\* as retryFailure, but the error of the retry is wrapped like an exhaustion
retryFailureWrapped(e) == Rejected(ExhaustionError(maxAttempts, e))

\* what execute() rejects with when the retried invocation rejected with e
retryFailure(e) == Rejected(e)

\* as retryResult, but the retry is awaited without returning its value
retryResultDropped(v) == Resolved("undefined")

\* what execute() resolves with when the retried invocation resolved with v
retryResult(v) == Resolved(v)

\* return await operation(): the retried invocation resolves with v, at a
\* heap usage that nothing samples
retryResolves(p, v, heapHigh) ==
  /\ task[p].pc = "thunk"
  /\ task[p].ret = "exec_retry"
  /\ task' = [task EXCEPT ![p] = IdleTask]
  /\ call' = [call EXCEPT ![p].thunks = Append(@, Resolved(v)),
                          ![p].heap = Sampled(heapHigh),
                          ![p].outcome = retryResult(v)]
  /\ UNCHANGED <<connected, reconnectAttempts, stats, timers, emitted, lastPrimitive, budget>>

\* return await operation(): the retried invocation rejects with e
retryRejects(p, e) ==
  /\ task[p].pc = "thunk"
  /\ task[p].ret = "exec_retry"
  /\ task' = [task EXCEPT ![p] = IdleTask]
  /\ call' = [call EXCEPT ![p].thunks = Append(@, Rejected(e)),
                          ![p].failures = @ + 1,
                          ![p].outcome = retryFailure(e)]
  /\ UNCHANGED <<connected, reconnectAttempts, stats, timers, emitted, lastPrimitive, budget>>

\* the ensureConnected() of the retry path rejects: execute rejects with its error
retryEnsureRejects(p) ==
  /\ task[p].pc = "ec_throw"
  /\ task[p].ret = "exec_retry"
  /\ task' = [task EXCEPT ![p] = IdleTask]
  /\ call' = [call EXCEPT ![p].failures = @ + 1,
                          ![p].ensures = Append(@, "err"),
                          ![p].outcome = Rejected(task[p].err)]
  /\ UNCHANGED <<connected, reconnectAttempts, stats, timers, emitted, lastPrimitive, budget>>

(* ------------------------------------------------------------------------ *)
(* initialize(), timers, reconnect(), shutdown(), healthCheck(), getClient() *)
(* ------------------------------------------------------------------------ *)

\* initialize() after its connect() has returned: the timers are started
initialize ==
  /\ task["init"].pc = "init_ok"
  /\ refreshTimer' = IF cfg.refreshEnabled THEN TRUE ELSE refreshTimer
  /\ healthCheckTimer' = IF cfg.healthCheckEnabled THEN TRUE ELSE healthCheckTimer
  /\ task' = [task EXCEPT !["init"] = IdleTask]
  /\ UNCHANGED <<connected, reconnectAttempts, stats, emitted, lastPrimitive, call, budget>>

\* as refreshTick, but the tick leaves the connected flag as it finds it
refreshTickKeepsFlag(old) ==
  /\ refreshTimer
  /\ task["refresh"].pc = "idle"
  /\ started < MaxActivities
  /\ started' = started + 1
  /\ connected' = connected
  /\ task' = [task EXCEPT !["refresh"].pc = "rf_disc"]
  /\ history' = [history EXCEPT !.aged = old]
  /\ UNCHANGED <<reconnectAttempts, stats, timers, emitted, lastPrimitive, call, fixed>>

\* a tick of the refresh timer, up to the await of disconnect(); old says
\* whether the time since the last successful connect has reached
\* refresh.maxConnectionAge when the tick runs (the callback does not look)
refreshTick(old) ==
  /\ refreshTimer
  /\ task["refresh"].pc = "idle"
  /\ started < MaxActivities
  /\ started' = started + 1
  /\ connected' = FALSE
  /\ task' = [task EXCEPT !["refresh"].pc = "rf_disc"]
  /\ history' = [history EXCEPT !.aged = old]
  /\ UNCHANGED <<reconnectAttempts, stats, timers, emitted, lastPrimitive, call, fixed>>

\* the refresh tick after disconnect() has returned: ensureConnected() is called
refreshEnsure ==
  /\ task["refresh"].pc = "rf_disc_ret"
  /\ callEnsureConnected("refresh", "refresh", connected, emitted)
  /\ UNCHANGED <<connected, stats, timers, lastPrimitive, call, budget>>

\* the refresh tick ends: ensureConnected() has returned
refreshDone ==
  /\ task["refresh"].pc = "ec_ret"
  /\ task' = [task EXCEPT !["refresh"] = IdleTask]
  /\ UNCHANGED <<connected, reconnectAttempts, stats, timers, emitted, lastPrimitive, call, budget>>

\* the refresh tick ends: ensureConnected() has thrown, the error is swallowed
refreshFailed ==
  /\ task["refresh"].pc = "ec_throw"
  /\ connected' = FALSE
  /\ task' = [task EXCEPT !["refresh"] = IdleTask]
  /\ UNCHANGED <<reconnectAttempts, stats, timers, emitted, lastPrimitive, call, budget>>

\* a tick of the health-check timer: healthCheck() issues its probe
healthCheckTick ==
  /\ healthCheckTimer
  /\ task["health"].pc = "idle"
  /\ started < MaxActivities
  /\ started' = started + 1
  /\ task' = [task EXCEPT !["health"].pc = "hc_probe"]
  /\ UNCHANGED <<connected, reconnectAttempts, stats, timers, emitted, lastPrimitive, call, fixed, history>>

\* a caller invokes healthCheck()
healthCheck(p) ==
  /\ p \in Callers
  /\ task[p].pc = "idle"
  /\ started < MaxActivities
  /\ started' = started + 1
  /\ task' = [task EXCEPT ![p].pc = "hc_probe"]
  /\ call' = [call EXCEPT ![p] = BeginCall(p, "healthCheck")]
  /\ UNCHANGED <<connected, reconnectAttempts, stats, timers, emitted, lastPrimitive, fixed, history>>

\* as healthCheckDone, but the connected flag is set to what the probe found
healthCheckDoneMarksState(p, healthy) ==
  /\ task[p].pc = "hc_probe"
  /\ connected' = healthy
  /\ task' = [task EXCEPT ![p] = IdleTask]
  /\ call' = IF p \in Callers
             THEN [call EXCEPT ![p].outcome = Resolved(IF healthy THEN "healthy" ELSE "unhealthy")]
             ELSE call
  /\ UNCHANGED <<reconnectAttempts, stats, timers, emitted, lastPrimitive, budget>>

\* the probe of healthCheck() resolves (healthy) or rejects (unhealthy)
healthCheckDone(p, healthy) ==
  /\ task[p].pc = "hc_probe"
  /\ task' = [task EXCEPT ![p] = IdleTask]
  /\ call' = IF p \in Callers
             THEN [call EXCEPT ![p].outcome = Resolved(IF healthy THEN "healthy" ELSE "unhealthy")]
             ELSE call
  /\ UNCHANGED <<connected, reconnectAttempts, stats, timers, emitted, lastPrimitive, budget>>

\* a caller invokes reconnect()
reconnect(p) ==
  /\ p \in Callers
  /\ task[p].pc = "idle"
  /\ started < MaxActivities
  /\ started' = started + 1
  /\ connected' = FALSE
  /\ callEnsureConnected(p, "reconnect", FALSE, emitted)
  /\ call' = [call EXCEPT ![p] = [BeginCall(p, "reconnect") EXCEPT !.protocols = 1]]
  /\ UNCHANGED <<stats, timers, lastPrimitive, fixed, history>>

\* reconnect() resolves: its ensureConnected() has returned
reconnectResolves(p) ==
  /\ task[p].pc = "ec_ret"
  /\ task[p].ret = "reconnect"
  /\ task' = [task EXCEPT ![p] = IdleTask]
  /\ call' = [call EXCEPT ![p].ensures = Append(@, "ok"),
                          ![p].outcome = Resolved("undefined")]
  /\ UNCHANGED <<connected, reconnectAttempts, stats, timers, emitted, lastPrimitive, budget>>

\* reconnect() rejects: its ensureConnected() has thrown
reconnectRejects(p) ==
  /\ task[p].pc = "ec_throw"
  /\ task[p].ret = "reconnect"
  /\ task' = [task EXCEPT ![p] = IdleTask]
  /\ call' = [call EXCEPT ![p].ensures = Append(@, "err"),
                          ![p].outcome = Rejected(task[p].err)]
  /\ UNCHANGED <<connected, reconnectAttempts, stats, timers, emitted, lastPrimitive, budget>>

\* a caller invokes shutdown(): the timers are cleared and disconnect() awaited
shutdown(p) ==
  /\ p \in Callers
  /\ task[p].pc = "idle"
  /\ started < MaxActivities
  /\ started' = started + 1
  /\ refreshTimer' = FALSE
  /\ healthCheckTimer' = FALSE
  /\ task' = [task EXCEPT ![p].pc = "sd_disc"]
  /\ call' = [call EXCEPT ![p] = BeginCall(p, "shutdown")]
  /\ history' = [history EXCEPT !.shutdowns = @ + 1]
  /\ UNCHANGED <<connected, reconnectAttempts, stats, emitted, lastPrimitive, fixed>>

\* a caller invokes $connect() of the handle getClient() returns
clientConnect(p) ==
  /\ p \in Callers
  /\ task[p].pc = "idle"
  /\ started < MaxActivities
  /\ started' = started + 1
  /\ task' = [task EXCEPT ![p].pc = "pt_conn"]
  /\ call' = [call EXCEPT ![p] = [BeginCall(p, "$connect") EXCEPT !.connects = 1]]
  /\ UNCHANGED <<connected, reconnectAttempts, stats, timers, emitted, lastPrimitive, fixed, history>>

\* a caller invokes $disconnect() of the handle getClient() returns
clientDisconnect(p) ==
  /\ p \in Callers
  /\ task[p].pc = "idle"
  /\ started < MaxActivities
  /\ started' = started + 1
  /\ task' = [task EXCEPT ![p].pc = "pt_disc"]
  /\ call' = [call EXCEPT ![p] = BeginCall(p, "$disconnect")]
  /\ UNCHANGED <<connected, reconnectAttempts, stats, timers, emitted, lastPrimitive, fixed, history>>

(* ------------------------------------------------------------------------ *)
(* The specification                                                         *)
(* ------------------------------------------------------------------------ *)

Next ==
  \/ \E p \in Tasks, ok \in BOOLEAN : disconnect(p, ok)
  \/ \E p \in Tasks : connectResolves(p)
  \/ \E p \in Tasks, e \in ConnectErrors : connectRejects(p, e)
  \/ \E p \in Tasks : sleepDone(p)
  \/ \E p \in Tasks : ensureConnectedSucceeds(p)
  \/ \E p \in Tasks : ensureConnectedCatch(p)
  \/ \E p \in Callers : executeWithReconnect(p)
  \/ \E p \in Callers : invokeOperation(p)
  \/ \E p \in Callers, v \in Values, heapHigh \in BOOLEAN : operationResolves(p, v, heapHigh)
  \/ \E p \in Callers, e \in ThunkErrors : operationRejects(p, e)
  \/ \E p \in Callers : ensureRejectsInExecute(p)
  \/ \E p \in Callers : onErrorReturns(p)
  \/ \E p \in Callers : onErrorThrows(p)
  \/ \E p \in Callers, v \in Values, heapHigh \in BOOLEAN : retryResolves(p, v, heapHigh)
  \/ \E p \in Callers, e \in ThunkErrors : retryRejects(p, e)
  \/ \E p \in Callers : retryEnsureRejects(p)
  \/ initialize
  \/ \E old \in BOOLEAN : refreshTick(old)
  \/ refreshEnsure
  \/ refreshDone
  \/ refreshFailed
  \/ healthCheckTick
  \/ \E p \in Callers : healthCheck(p)
  \/ \E p \in Tasks : healthCheckDone(p, TRUE) \/ healthCheckDone(p, FALSE)
  \/ \E p \in Callers : reconnect(p)
  \/ \E p \in Callers : reconnectResolves(p)
  \/ \E p \in Callers : reconnectRejects(p)
  \/ \E p \in Callers : shutdown(p)
  \/ \E p \in Callers : clientConnect(p)
  \/ \E p \in Callers : clientDisconnect(p)

Spec == Init /\ [][Next]_vars

\* at most one activity of the manager is in flight
OneAtATime == Cardinality({t \in Tasks : task[t].pc # "idle"}) <= 1

\* the manager used sequentially: an activity starts only when none is in flight
SeqNext ==
  \/ \E p \in Tasks, ok \in BOOLEAN : disconnect(p, ok) /\ OneAtATime'
  \/ \E p \in Tasks : connectResolves(p) /\ OneAtATime'
  \/ \E p \in Tasks, e \in ConnectErrors : connectRejects(p, e) /\ OneAtATime'
  \/ \E p \in Tasks : sleepDone(p) /\ OneAtATime'
  \/ \E p \in Tasks : ensureConnectedSucceeds(p) /\ OneAtATime'
  \/ \E p \in Tasks : ensureConnectedCatch(p) /\ OneAtATime'
  \/ \E p \in Callers : executeWithReconnect(p) /\ OneAtATime'
  \/ \E p \in Callers : invokeOperation(p) /\ OneAtATime'
  \/ \E p \in Callers, v \in Values, heapHigh \in BOOLEAN : operationResolves(p, v, heapHigh) /\ OneAtATime'
  \/ \E p \in Callers, e \in ThunkErrors : operationRejects(p, e) /\ OneAtATime'
  \/ \E p \in Callers : ensureRejectsInExecute(p) /\ OneAtATime'
  \/ \E p \in Callers : onErrorReturns(p) /\ OneAtATime'
  \/ \E p \in Callers : onErrorThrows(p) /\ OneAtATime'
  \/ \E p \in Callers, v \in Values, heapHigh \in BOOLEAN : retryResolves(p, v, heapHigh) /\ OneAtATime'
  \/ \E p \in Callers, e \in ThunkErrors : retryRejects(p, e) /\ OneAtATime'
  \/ \E p \in Callers : retryEnsureRejects(p) /\ OneAtATime'
  \/ initialize /\ OneAtATime'
  \/ \E old \in BOOLEAN : refreshTick(old) /\ OneAtATime'
  \/ refreshEnsure /\ OneAtATime'
  \/ refreshDone /\ OneAtATime'
  \/ refreshFailed /\ OneAtATime'
  \/ healthCheckTick /\ OneAtATime'
  \/ \E p \in Callers : healthCheck(p) /\ OneAtATime'
  \/ \E p \in Tasks : (healthCheckDone(p, TRUE) \/ healthCheckDone(p, FALSE)) /\ OneAtATime'
  \/ \E p \in Callers : reconnect(p) /\ OneAtATime'
  \/ \E p \in Callers : reconnectResolves(p) /\ OneAtATime'
  \/ \E p \in Callers : reconnectRejects(p) /\ OneAtATime'
  \/ \E p \in Callers : shutdown(p) /\ OneAtATime'
  \/ \E p \in Callers : clientConnect(p) /\ OneAtATime'
  \/ \E p \in Callers : clientDisconnect(p) /\ OneAtATime'

SpecSeq == Init /\ [][SeqNext]_vars

(* ------------------------------------------------------------------------ *)
(* Properties                                                                *)
(* ------------------------------------------------------------------------ *)

\* caller p's execute() has returned or thrown
ExecDone(p) == call[p].op = "execute" /\ call[p].outcome.kind # "pending"

\* o is a rejection the classifier marks recoverable
RecoverableFailure(o) == o.kind = "err" /\ isRetryableError(o.err)

\* task t is inside the attempt loop of ensureConnected()
InProtocol(t) == task[t].pc \in {"ec_disc", "ec_sleep", "ec_conn", "ec_conn_ok", "ec_conn_fail"}

\* C1: when the first invocation of the thunk fails with a recoverable error
\* and the reconnection that follows succeeds, the thunk has been invoked
\* exactly twice once execute() is over, and if the second invocation resolved,
\* execute() resolved with that invocation's result.
C1_RetryOnceSuccess ==
  \A p \in Callers :
    ( /\ ExecDone(p)
      /\ Len(call[p].thunks) >= 1
      /\ RecoverableFailure(call[p].thunks[1])
      /\ call[p].ensures = <<"ok", "ok">> )
    => /\ call[p].invoked = 2
       /\ Len(call[p].thunks) = 2
       /\ (call[p].thunks[2].kind = "ok" => call[p].outcome = call[p].thunks[2])

\* an execute() is over whose thunk failed recoverably, was retried after a
\* successful reconnection, and resolved
C1_Witness ==
  \E p \in Callers :
    /\ ExecDone(p)
    /\ Len(call[p].thunks) = 2
    /\ RecoverableFailure(call[p].thunks[1])
    /\ call[p].ensures = <<"ok", "ok">>
    /\ call[p].thunks[2].kind = "ok"
    /\ call[p].outcome.kind = "ok"

\* C2: the thunk is never invoked a third time, and when it failed with a
\* recoverable error and failed again on the retry, execute() is over, rejected
\* with the error of the second failure itself.
C2_SecondFailurePropagates ==
  \A p \in Callers :
    /\ call[p].invoked <= 2
    /\ ( /\ call[p].op = "execute"
         /\ Len(call[p].thunks) = 2
         /\ RecoverableFailure(call[p].thunks[1])
         /\ call[p].thunks[2].kind = "err" )
       => /\ task[p].pc = "idle"
          /\ call[p].outcome = Rejected(call[p].thunks[2].err)
          /\ call[p].protocols <= 2

\* an execute() is over whose thunk failed recoverably twice
C2_Witness ==
  \E p \in Callers :
    /\ ExecDone(p)
    /\ Len(call[p].thunks) = 2
    /\ RecoverableFailure(call[p].thunks[1])
    /\ RecoverableFailure(call[p].thunks[2])

\* C3: when the thunk fails with an error the classifier does not mark
\* recoverable, execute() rejects with that same error after one invocation
\* and without starting a reconnection.
C3_NonRecoverablePropagates ==
  \A p \in Callers :
    ( /\ ExecDone(p)
      /\ Len(call[p].thunks) >= 1
      /\ call[p].ensures[1] = "ok"
      /\ call[p].thunks[1].kind = "err"
      /\ ~isRetryableError(call[p].thunks[1].err) )
    => /\ call[p].outcome = call[p].thunks[1]
       /\ call[p].invoked = 1
       /\ Len(call[p].ensures) = 1

\* C4: at most one task is inside the attempt loop of ensureConnected().
C4_SingleFlight == Cardinality({t \in Tasks : InProtocol(t)}) <= 1

\* C5: when the ensureConnected() at the start of execute() is exhausted and
\* no subscriber throws, the call starts no second reconnection and never
\* invokes the thunk, and it ends rejected with the exhaustion error after
\* exactly maxAttempts connects.
C5_ExhaustionIsFatal ==
  \A p \in Callers :
    ( /\ call[p].op = "execute"
      /\ cfg.listener = "none"
      /\ Len(call[p].ensures) >= 1
      /\ call[p].ensures[1] = "err" )
    => /\ call[p].invoked = 0
       /\ call[p].protocols = 1
       /\ call[p].connects = maxAttempts
       /\ (ExecDone(p) => /\ call[p].outcome.kind = "err"
                          /\ IsExhaustionError(call[p].outcome.err, maxAttempts))

\* the execute() of caller p is the activity that started next after the
\* execute() of caller q, which ended with the exhaustion error
NextAfterExhaustion(q, p) ==
  /\ ExecDone(q)
  /\ call[q].outcome.kind = "err"
  /\ IsExhaustionError(call[q].outcome.err, maxAttempts)
  /\ call[p].op = "execute"
  /\ call[p].seq = call[q].seq + 1
  /\ started = call[p].seq

\* C6: with one activity in flight at a time, once an execute() has ended with
\* the exhaustion error the manager is Disconnected; the next execute() starts
\* a reconnection whose first attempt is attempt 1, and if its thunk resolves,
\* it resolves with the thunk's result.
C6_UsableAfterExhaustion ==
  \A q \in Callers :
    /\ ( /\ ExecDone(q)
         /\ started = call[q].seq
         /\ call[q].outcome.kind = "err"
         /\ IsExhaustionError(call[q].outcome.err, maxAttempts) )
       => ~connected
    /\ \A p \in Callers \ {q} :
         NextAfterExhaustion(q, p) =>
           /\ call[p].protocols >= 1
           /\ (task[p].pc = "ec_disc" /\ call[p].connects = 0)
                => (task[p].attempt = 1 /\ reconnectAttempts = 1)
           /\ ( /\ ExecDone(p)
                /\ Len(call[p].thunks) >= 1
                /\ call[p].thunks[1].kind = "ok" )
              => call[p].outcome = call[p].thunks[1]

\* C7: with an error handler configured, the handler has been invoked once for
\* every failure inside an execute() that is over.
C7_HandlerSeesEveryFailure ==
  \A p \in Callers :
    (ExecDone(p) /\ cfg.onError # "none") => call[p].handlers = call[p].failures

\* C8: an execute() that returned a result has increased queryCount by one, and
\* one that rejected has not changed it.
C8_QueryCountPerResult ==
  \A p \in Callers :
    ExecDone(p) => call[p].qInc = (IF call[p].outcome.kind = "ok" THEN 1 ELSE 0)

\* C9: an execute() has increased errorCount once for each failure inside it.
C9_ErrorCountPerFailure ==
  \A p \in Callers :
    call[p].op = "execute" => call[p].eInc = call[p].failures

\* C10: no step decreases queryCount or errorCount.
C10_StatsMonotonic ==
  [][queryCount' >= queryCount /\ errorCount' >= errorCount]_vars

\* operations have both succeeded and failed
C10_Witness ==
  /\ queryCount > 0
  /\ errorCount > 0

\* a tick of the refresh timer or of the health-check timer starts in this step
TickStarts ==
  \/ task["refresh"].pc = "idle" /\ task'["refresh"].pc # "idle"
  \/ task["health"].pc = "idle" /\ task'["health"].pc # "idle"

\* C11: once shutdown() has been called, no refresh tick and no health-check
\* tick starts any more, whenever in the manager's life it was called.
C11_NoTickAfterShutdown == [][history.shutdowns > 0 => ~TickStarts]_vars

\* the shutdown() of caller p returns in this step
ShutdownReturns(p) == task[p].pc = "sd_disc" /\ task'[p].pc = "idle"

\* C12: when a shutdown() that was called after an earlier shutdown() returns,
\* it has not thrown, the manager is Disconnected and both timers are cleared.
C12_ShutdownIdempotent ==
  [][\A p \in Callers :
       ( /\ ShutdownReturns(p)
         /\ \E q \in Callers \ {p} : call[q].op = "shutdown" /\ call[q].seq < call[p].seq )
       => /\ call'[p].outcome.kind = "ok"
          /\ ~connected'
          /\ ~refreshTimer'
          /\ ~healthCheckTimer']_vars

\* C13: once initialize() is over and as long as shutdown() has not been
\* called, each timer that the configuration enables is running, whether the
\* initial connect succeeded or not.
C13_TimersStartedAtConstruction ==
  (task["init"].pc = "idle" /\ history.shutdowns = 0)
  => /\ cfg.refreshEnabled => refreshTimer
     /\ cfg.healthCheckEnabled => healthCheckTimer

\* C14: when the initial $connect has failed, initialize() has ended without
\* throwing and the manager is Disconnected until an activity starts; the
\* execute() that is the first activity afterwards starts a reconnection, and
\* once an underlying $connect of it has resolved, it ends having invoked the
\* thunk and, if the first invocation resolved, with that invocation's result.
C14_InitialConnectBestEffort ==
  history.init = "rejected"
  => /\ task["init"].pc = "idle"
     /\ started = 0 => ~connected
     /\ \A p \in Callers :
          (call[p].op = "execute" /\ call[p].seq = 1)
          => /\ call[p].protocols >= 1
             /\ (ExecDone(p) /\ call[p].connOk >= 1)
                  => /\ call[p].invoked >= 1
                     /\ call[p].thunks[1].kind = "ok" => call[p].outcome = call[p].thunks[1]

\* this step is one of task p inside healthCheck(): its call or its return
HealthCheckStep(p) ==
  /\ task'[p] # task[p]
  /\ task[p].pc = "hc_probe" \/ task'[p].pc = "hc_probe"

\* C15: a step of healthCheck(), called by a caller or by the timer, leaves the
\* connected flag, the counters and lastSuccessfulConnection as they are, emits
\* no event, starts no reconnection, and ends with a result, never an error.
C15_HealthCheckReadOnly ==
  [][\A p \in Tasks :
       HealthCheckStep(p)
       => /\ UNCHANGED <<connected, reconnectAttempts, totalReconnects, queryCount,
                         errorCount, lastSuccessfulConnection, emitted>>
          /\ task'[p].pc \in {"idle", "hc_probe"}
          /\ (p \in Callers /\ task'[p].pc = "idle")
               => /\ call'[p].outcome.kind = "ok"
                  /\ call'[p].outcome.val \in {"healthy", "unhealthy"}]_vars

\* a caller's healthCheck() has reported 'unhealthy' and the manager, Connected
\* before, is Connected still
C15_Witness ==
  \E p \in Callers :
    /\ call[p].op = "healthCheck"
    /\ call[p].outcome = Resolved("unhealthy")
    /\ connected
    /\ started = 1

\* C16: a subscriber that throws changes no outcome: no task fails with the
\* subscriber's error (bare or wrapped by ensureConnected), and no call is
\* rejected with it.
C16_SubscriberCannotBreak ==
  /\ \A t \in Tasks :
       task[t].err \notin {ErrListener, ExhaustionError(maxAttempts, ErrListener)}
  /\ \A p \in Callers :
       call[p].outcome.err \notin {ErrListener, ExhaustionError(maxAttempts, ErrListener)}

\* C17: every step that takes the connected flag from true to false emits
\* 'disconnect'.
C17_DisconnectEventOnEveryLoss ==
  [][(connected /\ ~connected') => emitted'["disconnect"] > emitted["disconnect"]]_vars

\* C18: a reconnect() that is the only activity since construction and whose
\* underlying $connect calls have all failed never emits 'reconnect:success',
\* emits 'reconnect:failed' only after maxAttempts connect attempts, and ends
\* rejected with the wrapped error for maxAttempts, after exactly maxAttempts
\* attempts and one 'reconnect:failed', with the manager Disconnected.
C18_EnsureConnectedExhaustion ==
  \A p \in Callers :
    ( /\ call[p].op = "reconnect"
      /\ call[p].seq = 1
      /\ started = 1
      /\ call[p].connOk = 0 )
    => /\ emitted["reconnect:success"] = 0
       /\ call[p].outcome.kind # "ok"
       /\ emitted["reconnect:failed"] > 0
            => (call[p].connects = maxAttempts /\ task[p].pc \in {"ec_throw", "idle"})
       /\ task[p].pc = "idle"
            => /\ call[p].outcome.kind = "err"
               /\ IsExhaustionError(call[p].outcome.err, maxAttempts)
               /\ call[p].connects = maxAttempts
               /\ emitted["reconnect"] = maxAttempts
               /\ emitted["reconnect:failed"] = 1
               /\ ~connected

\* C19: totalReconnects equals the number of 'reconnect:success' events, and a
\* step changes it only by adding one when the connect() of an attempt has
\* returned, after which ensureConnected() returns without a further attempt.
C19_TotalReconnectsCountsSuccesses ==
  [][/\ totalReconnects' = emitted'["reconnect:success"]
     /\ totalReconnects' # totalReconnects
          => /\ totalReconnects' = totalReconnects + 1
             /\ \E p \in Tasks : task[p].pc = "ec_conn_ok" /\ task'[p].pc = "ec_ret"]_vars

\* C20: the step in which a disconnect() returns, whoever awaits it, leaves
\* the manager Disconnected, and a $disconnect() through the handle resolves.
C20_DisconnectForcesDisconnected ==
  [][\A p \in Tasks :
       ( /\ task[p].pc \in {"ec_disc", "rf_disc", "sd_disc", "pt_disc"}
         /\ task'[p].pc # task[p].pc )
       => /\ ~connected'
          /\ (p \in Callers /\ task[p].pc = "pt_disc")
               => call'[p].outcome = Resolved("undefined")]_vars

\* two $disconnect() calls through the handle in a row, on a manager that had
\* connected, have both resolved and the manager is Disconnected
C20_Witness ==
  /\ \A p \in Callers : call[p].op = "$disconnect" /\ call[p].outcome = Resolved("undefined")
  /\ history.init = "resolved"
  /\ ~connected

(* ------------------------------------------------------------------------ *)
(* The memory check                                                          *)
(* ------------------------------------------------------------------------ *)

\* caller p's execute() returns a result in this step
ExecReturns(p) ==
  /\ call[p].op = "execute"
  /\ call[p].outcome.kind = "pending"
  /\ call'[p].outcome.kind = "ok"

\* how often event e is emitted in this step
EmittedNow(e) == emitted'[e] - emitted[e]

\* C26: with autoGC enabled, an execute() that returns a result emits
\* 'memory:high' once if the heap usage is at or above the threshold and not
\* otherwise, and 'gc:executed' once if it emitted 'memory:high' and the process
\* has a gc(), and not otherwise.
C26_MemoryCheckedOnSuccess ==
  [][\A p \in Callers :
       (ExecReturns(p) /\ cfg.autoGC /\ cfg.listener = "none")
         => /\ EmittedNow("memory:high") = (IF call'[p].heap = "high" THEN 1 ELSE 0)
            /\ EmittedNow("gc:executed") =
                 (IF EmittedNow("memory:high") = 1 /\ cfg.exposeGC THEN 1 ELSE 0)]_vars

(* ------------------------------------------------------------------------ *)
(* reconnect() and the reconnection protocol                                 *)
(* ------------------------------------------------------------------------ *)

\* C27: a reconnect() that is the only activity since construction runs the
\* protocol with the manager Disconnected until an attempt connects, never
\* returns without an attempt, and ends resolved with the manager Connected and
\* totalReconnects = 1 if an underlying $connect resolved, and otherwise
\* rejected with the wrapped error after maxAttempts attempts, Disconnected.
C27_ManualReconnect ==
  \A p \in Callers :
    ( /\ call[p].op = "reconnect"
      /\ call[p].seq = 1
      /\ started = 1 )
    => /\ (task[p].pc \notin {"idle", "ec_conn_ok", "ec_ret"}) => ~connected
       /\ (task[p].pc \notin {"ec_disc", "ec_sleep"}) => call[p].connects >= 1
       /\ task[p].pc = "idle"
            => IF call[p].connOk >= 1
               THEN /\ call[p].outcome = Resolved("undefined")
                    /\ connected
                    /\ totalReconnects = 1
               ELSE /\ call[p].outcome.kind = "err"
                    /\ IsExhaustionError(call[p].outcome.err, maxAttempts)
                    /\ call[p].connects = maxAttempts
                    /\ ~connected

\* task p calls ensureConnected() in this step as the first thing of an
\* execute() or after the disconnect() of a refresh tick
EnsureConnectedCalled(p) ==
  /\ task[p].pc \in {"idle", "rf_disc_ret"}
  /\ task'[p].pc \in {"ec_ret", "ec_disc", "ec_throw"}
  /\ p \in Callers => call'[p].op = "execute"

\* C29: an ensureConnected() called while the manager is Connected returns at
\* once: no attempt starts, nothing is emitted, and the connected flag,
\* reconnectAttempts, totalReconnects, lastSuccessfulConnection and the
\* underlying handle's last call are as before.
C29_EnsureConnectedNoOp ==
  [][\A p \in Tasks :
       (EnsureConnectedCalled(p) /\ connected)
         => /\ task'[p].pc = "ec_ret"
            /\ task'[p].attempt = 0
            /\ UNCHANGED <<connected, reconnectAttempts, totalReconnects,
                           lastSuccessfulConnection, emitted, lastPrimitive>>]_vars

\* an execute() went through without any reconnection and returned a result
C29_Witness ==
  \E p \in Callers :
    /\ ExecDone(p)
    /\ call[p].protocols = 0
    /\ call[p].connects = 0
    /\ call[p].outcome.kind = "ok"
    /\ connected

\* C30: an attempt starts as attempt 1 when ensureConnected() is entered and as
\* the next number after a failed attempt, never beyond maxAttempts, and emits
\* 'reconnect' as it starts; the backoff wait starts only when the disconnect
\* of the same attempt has completed, for min(initialDelay * 2^(attempt-1),
\* maxDelay); the connect starts only when the wait of the same attempt is over.
C30_ProtocolOrdering ==
  [][\A p \in Tasks :
       LET t == task[p]
           u == task'[p]
       IN  /\ (u.pc = "ec_disc" /\ t.pc # "ec_disc")
                => /\ u.attempt = (IF t.pc \in {"ec_conn_fail", "ec_conn_ok"}
                                   THEN t.attempt + 1 ELSE 1)
                   /\ u.attempt <= maxAttempts
                   /\ reconnectAttempts' = u.attempt
                   /\ emitted'["reconnect"] = emitted["reconnect"] + 1
           /\ (u.pc = "ec_sleep" /\ t.pc # "ec_sleep")
                => /\ t.pc = "ec_disc"
                   /\ u.attempt = t.attempt
                   /\ lastPrimitive' = "disconnect"
                   /\ u.delay <= DEFAULT_INITIAL_DELAY * 2^(u.attempt - 1)
                   /\ u.delay <= DEFAULT_MAX_DELAY
                   /\ u.delay \in {DEFAULT_INITIAL_DELAY * 2^(u.attempt - 1), DEFAULT_MAX_DELAY}
           /\ (u.pc = "ec_conn" /\ t.pc # "ec_conn")
                => /\ t.pc = "ec_sleep"
                   /\ u.attempt = t.attempt
                   /\ p \in Callers => call'[p].connects = call[p].connects + 1]_vars

\* the connect of a second attempt is under way after a wait of 2000 ms
C30_Witness ==
  \E p \in Tasks :
    /\ task[p].pc = "ec_conn"
    /\ task[p].attempt = 2
    /\ task[p].delay = 2000
    /\ emitted["reconnect"] >= 2

(* ------------------------------------------------------------------------ *)
(* The utility functions called on their own                                 *)
(* ------------------------------------------------------------------------ *)

\* the initial delays and the caps a backoff is computed for
Delays == {0, 1, 3, 10, 1000, 5000, 10000}

\* calls of calculateBackoff for attempt 1, 2, ... of one reconnection
BackoffCalls ==
  [fn : {"calculateBackoff"}, attempt : {0}, initialDelay : Delays, maxDelay : Delays,
   strategy : {"exponential", "linear"}, delay : {0}, prev : {0}]

\* the messages of the error objects examined
Messages ==
  { <<"E","r","r","o","r">>,
    <<"C","o","n","n","e","c","t","i","o","n"," ","r","e","f","u","s","e","d">>,
    <<"E","C","O","N","N","R","E","F","U","S","E","D">>,
    <<"S","o","c","k","e","t"," ","t","i","m","e","o","u","t">>,
    <<"N","e","t","w","o","r","k"," ","e","r","r","o","r">>,
    <<"I","n","v","a","l","i","d"," ","i","n","p","u","t">>,
    <<"U","n","i","q","u","e"," ","c","o","n","s","t","r","a","i","n","t">>,
    <<"C","o","n","n","e","c","t","i","o","n"," ","l","o","s","t">>,
    <<"e","t","i","m","e","d","o","u","t">>,
    <<"E","N","O","T","F","O","U","N","D"," ","d","b">>,
    <<"D","i","s","c","o","n","n","e","c","t","e","d">>,
    <<"S","o","c","k"," ","e","t">> }

\* the values the classifier and getErrorMessage are called with
Thrown ==
  {JsNull, JsUndefined, JsNumber(0), JsNumber(7), JsNumber(123),
   JsBoolean(TRUE), JsBoolean(FALSE), JsString(<<>>),
   JsString(<<"s","t","r","i","n","g"," ","e","r","r","o","r">>), JsString(<<"c","o","n","n","e","c","t","i","o","n"," ","r","e","s","e","t">>)}
  \cup { MkError(c, m) : c \in CONNECTION_ERROR_CODES \cup {"", "P2002", "p1001"}, m \in Messages }
  \cup { NewError(m) : m \in Messages }
  \cup { CodeOnly(c) : c \in {"", "P1001", "P2002"} }
  \cup { NumericMessage(c, n) : c \in {"", "P1017"}, n \in {0, 5} }

ClassifierCalls ==
  [fn : {"isConnectionError", "isRetryableError"}, arg : Thrown, done : {FALSE}, returned : {"none"}]

MessageCalls ==
  [fn : {"getErrorMessage"}, arg : Thrown, done : {FALSE}, text : {<<>>}]

\* everything of the manager: the utilities touch none of it
manager ==
  <<connected, reconnectAttempts, totalReconnects, lastSuccessfulConnection, queryCount,
    errorCount, refreshTimer, healthCheckTimer, emitted, lastPrimitive, task, call, cfg,
    started, history, prisma>>

\* one call of a utility function is examined, beside a manager just constructed
UtilInit ==
  /\ Constructed
  /\ cfg.listener = "none" /\ cfg.onError = "none" /\ cfg.maxAttempts = 1
  /\ ~cfg.refreshEnabled /\ ~cfg.autoGC
  /\ util \in BackoffCalls \cup ClassifierCalls \cup MessageCalls

\* calculateBackoff is called for the next attempt
callCalculateBackoff ==
  /\ util.fn = "calculateBackoff"
  /\ util.attempt < MaxBackoffAttempt
  /\ util' = [util EXCEPT !.attempt = @ + 1,
                          !.prev = util.delay,
                          !.delay = calculateBackoff(util.attempt + 1, util.initialDelay,
                                                     util.maxDelay, util.strategy)]
  /\ UNCHANGED manager

\* how a call of the classifier on v ends
classified(v, returns) ==
  IF isConnectionErrorThrows(v) THEN "TypeError" ELSE IF returns THEN "true" ELSE "false"

callIsConnectionError ==
  /\ util.fn = "isConnectionError"
  /\ ~util.done
  /\ util' = [util EXCEPT !.done = TRUE,
                          !.returned = classified(util.arg, isConnectionError(util.arg))]
  /\ UNCHANGED manager

callIsRetryableError ==
  /\ util.fn = "isRetryableError"
  /\ ~util.done
  /\ util' = [util EXCEPT !.done = TRUE,
                          !.returned = classified(util.arg, isRetryableError(util.arg))]
  /\ UNCHANGED manager

callGetErrorMessage ==
  /\ util.fn = "getErrorMessage"
  /\ ~util.done
  /\ util' = [util EXCEPT !.done = TRUE, !.text = getErrorMessage(util.arg)]
  /\ UNCHANGED manager

UtilNext ==
  \/ callCalculateBackoff
  \/ callIsConnectionError
  \/ callIsRetryableError
  \/ callGetErrorMessage

SpecUtil == UtilInit /\ [][UtilNext]_vars

SameLetter(a, b) ==
  a = b \/ \E k \in 1..26 : {a, b} = {UpperCase[k], LowerCase[k]}

\* s contains kw when the case of letters is ignored
ContainsIgnoringCase(s, kw) ==
  \E i \in 1..Len(s) :
    /\ i + Len(kw) - 1 <= Len(s)
    /\ \A j \in 1..Len(kw) : SameLetter(s[i + j - 1], kw[j])

\* C25: the classifier returns true exactly for the non-null objects whose
\* code is P1001, P1008, P1017 or P2024 or whose message contains a connection
\* keyword in any case, and returns false for every input that is not an object.
C25_ClassifierRecoverable ==
  (util.fn \in {"isConnectionError", "isRetryableError"} /\ util.done) =>
    LET v == util.arg
        recoverable ==
          /\ v.t = "object"
          /\ \/ v.code \in {"P1001", "P1008", "P1017", "P2024"}
             \/ /\ v.mt = "string"
                /\ \E kw \in connectionKeywords : ContainsIgnoringCase(v.message, kw)
    IN  /\ (util.returned = "true") <=> recoverable
        /\ v.t # "object" => util.returned = "false"

\* an error without code whose message names ECONNREFUSED in capitals was
\* classified recoverable
C25_Witness ==
  /\ util.fn = "isRetryableError"
  /\ util.done
  /\ util.arg = MkError("", <<"E","C","O","N","N","R","E","F","U","S","E","D">>)
  /\ util.returned = "true"

\* C28: getErrorMessage returns the message of an object that has one, a bare
\* string itself, "Unknown error" for null and undefined, and the stringified
\* value for every other input.
C28_ErrorMessageOf ==
  (util.fn = "getErrorMessage" /\ util.done) =>
    LET v == util.arg
    IN  util.text =
          CASE v.t = "object" /\ v.mt = "string" -> v.message
            [] v.t = "object" /\ v.mt = "number" -> DigitsOf(v.num)
            [] v.t = "string" -> v.str
            [] v.t \in {"null", "undefined"} -> <<"U","n","k","n","o","w","n"," ","e","r","r","o","r">>
            [] OTHER -> StringOf(v)

(* ------------------------------------------------------------------------ *)
(* Hard reset                                                                *)
(* ------------------------------------------------------------------------ *)

\* the handle the constructor stored has been replaced n times
HardResets(n) == prisma = n

\* caller p's execute() is over: its thunk was invoked once and failed with a
\* recoverable error, and the reconnection that followed was exhausted
FailedRecoverably(p) ==
  /\ ExecDone(p)
  /\ Len(call[p].thunks) = 1
  /\ RecoverableFailure(call[p].thunks[1])
  /\ call[p].outcome.kind = "err"
  /\ IsExhaustionError(call[p].outcome.err, maxAttempts)

\* C21: with maxConsecutiveErrors = 2 and one activity in flight at a time,
\* after one execute() that failed recoverably the handle is still the
\* original one, and after a second one in a row (no operation succeeded in
\* between) the handle has been replaced exactly once.
C21_ConsecutiveErrorEscalation ==
  \A q \in Callers : \A p \in Callers \ {q} :
    ( /\ cfg.maxConsecutiveErrors = 2
      /\ ~cfg.hardResetOnFinalAttempt
      /\ cfg.listener = "none"
      /\ FailedRecoverably(q)
      /\ call[q].seq = 1 )
    => /\ started = 1 => HardResets(0)
       /\ (FailedRecoverably(p) /\ call[p].seq = 2 /\ started = 2) => HardResets(1)

\* the refresh tick ends in this step
RefreshTickEnds ==
  /\ task["refresh"].pc \in {"ec_ret", "ec_throw"}
  /\ task'["refresh"].pc = "idle"

\* C22: a refresh tick that ran at an age of at least maxConnectionAge has
\* replaced the handle when it ends, and a tick that ran at a smaller age ends
\* with the same handle, the connected flag being what its disconnect and
\* ensureConnected() left.
C22_ConnectionAgeEscalation ==
  [][(RefreshTickEnds /\ ~cfg.hardResetOnFinalAttempt)
       => IF history.aged THEN ~HardResets(0)' ELSE HardResets(0)']_vars

\* C23: with hardResetOnFinalAttempt set and more than one attempt configured,
\* the connect of the final attempt of a reconnection protocol is issued on a
\* handle obtained after the earlier attempts failed, not on the original one,
\* while the earlier attempts connect the handle the protocol started with.
C23_HardResetOnFinalAttempt ==
  \A t \in Tasks :
    ( /\ cfg.hardResetOnFinalAttempt
      /\ maxAttempts > 1
      /\ cfg.listener = "none"
      /\ task[t].pc = "ec_conn" )
    => IF task[t].attempt = maxAttempts THEN ~HardResets(0) ELSE task[t].attempt < maxAttempts

(* ------------------------------------------------------------------------ *)
(* connect() and the refresh tick, step by step                              *)
(* ------------------------------------------------------------------------ *)

\* the connect() task p awaits ends in this step
ConnectStep(p) ==
  /\ task[p].pc \in {"ec_conn", "init_conn", "pt_conn"}
  /\ task'[p].pc # task[p].pc

\* C31: a connect() whose $connect resolves leaves the manager Connected, a new
\* lastSuccessfulConnection and reconnectAttempts = 0, emits 'connect' alone and
\* returns; one whose $connect rejects leaves the manager Disconnected, emits
\* 'disconnect' alone, keeps lastSuccessfulConnection and reconnectAttempts and
\* throws the error of the $connect; called through the handle it has issued
\* one $connect when it ends.
C31_ConnectOnce ==
  [][\A p \in Tasks :
       ConnectStep(p) =>
         /\ IF lastPrimitive' = "connect"
            THEN /\ connected'
                 /\ lastSuccessfulConnection' = lastSuccessfulConnection + 1
                 /\ reconnectAttempts' = 0
                 /\ EmittedNow("connect") = 1
                 /\ EmittedNow("disconnect") = 0
                 /\ task'[p].pc \in {"ec_conn_ok", "init_ok", "idle"}
                 /\ task[p].pc = "pt_conn" => call'[p].outcome = Resolved("undefined")
            ELSE /\ ~connected'
                 /\ EmittedNow("disconnect") = 1
                 /\ EmittedNow("connect") = 0
                 /\ UNCHANGED <<lastSuccessfulConnection, reconnectAttempts>>
                 /\ task[p].pc = "ec_conn"
                      => (task'[p].pc = "ec_conn_fail" /\ task'[p].err \in ConnectErrors)
                 /\ task[p].pc = "pt_conn"
                      => (call'[p].outcome.kind = "err" /\ call'[p].outcome.err \in ConnectErrors)
         /\ task[p].pc = "pt_conn" => (task'[p].pc = "idle" /\ call'[p].connects = 1)]_vars

----------------------------------------------------------------------------
\* The error handler as an observer

\* C33: what the error handler does makes no difference to execute(): with no
\* throwing subscriber, an execute() that is over has not raised the handler's
\* own error, and when its first invocation failed with a recoverable error
\* the reconnection of the retry has been run.
C33_HandlerIsObserver ==
  \A p \in Callers :
    (ExecDone(p) /\ cfg.listener = "none")
      => /\ call[p].outcome # Rejected(ErrHandler)
         /\ (Len(call[p].thunks) >= 1 /\ RecoverableFailure(call[p].thunks[1]))
              => Len(call[p].ensures) = 2

----------------------------------------------------------------------------
\* The connected flag under interleaving

\* what getConnectionStats() returns (the time fields apart)
getConnectionStats ==
  [isConnected |-> connected, reconnectAttempts |-> reconnectAttempts,
   totalReconnects |-> totalReconnects, queryCount |-> queryCount,
   errorCount |-> errorCount]

\* C34: whenever the connected flag is true, the attempt counter that
\* getConnectionStats() reports is 0.
C34_ConnectedMeansNoAttempt ==
  connected => getConnectionStats.reconnectAttempts = 0

\* the step in which execute() of caller p invokes its thunk
ThunkInvoked(p) == task[p].pc = "ec_ret" /\ task'[p].pc = "thunk"

\* C35: the thunk of an execute() is invoked, the first time and on the retry,
\* only in a state where the connected flag is true.
C35_ThunkOnlyWhenConnected ==
  [][\A p \in Callers : ThunkInvoked(p) => connected]_vars

\* C37: when the connected flag is true the lifecycle primitive the handle
\* completed last is a $connect that resolved.
C37_FlagNeverAheadOfHandle ==
  connected => lastPrimitive = "connect"

\* the flag is true again after a $disconnect: a reconnection has connected
C37_Witness ==
  /\ connected
  /\ totalReconnects >= 1
  /\ lastPrimitive = "connect"

----------------------------------------------------------------------------
\* shutdown() and the refresh tick against work in flight

\* caller q's shutdown() has returned and no caller has invoked anything since
\* it was called
ShutdownWasLast(q) ==
  /\ call[q].op = "shutdown"
  /\ call[q].outcome.kind = "ok"
  /\ \A p \in Callers \ {q} : call[p].seq < call[q].seq

\* the step issues an underlying $connect
ConnectIssued ==
  \E t \in Tasks : task'[t].pc \in {"ec_conn", "pt_conn"} /\ task[t].pc # task'[t].pc

\* C38: once shutdown() has returned, and as long as no caller invokes a new
\* operation, no step issues an underlying $connect and the manager stays
\* Disconnected.
C38_ShutdownIsFinal ==
  [][\A q \in Callers :
       (ShutdownWasLast(q) /\ ShutdownWasLast(q)') => (~ConnectIssued /\ ~connected')]_vars

\* the thunk of some caller's execute() is in flight
ThunkInFlight == \E p \in Callers : task[p].pc = "thunk"

\* a step of the refresh tick that issues $disconnect (at the start of the tick
\* and at the start of each attempt of its ensureConnected())
RefreshIssuesDisconnect ==
  /\ task'["refresh"].pc \in {"rf_disc", "ec_disc"}
  /\ task'["refresh"] # task["refresh"]

\* a step of the refresh tick that takes the connected flag from true to false
RefreshClearsFlag ==
  /\ task'["refresh"] # task["refresh"]
  /\ connected
  /\ ~connected'

\* C39: while a caller's thunk is in flight no step of the refresh tick issues
\* $disconnect or clears the connected flag.
C39_RefreshSparesThunks ==
  [][ThunkInFlight => (~RefreshIssuesDisconnect /\ ~RefreshClearsFlag)]_vars

----------------------------------------------------------------------------
\* Bounded work and termination of execute()

\* a step of task t while it is in the middle of an activity: the underlying
\* call, the sleep or the handler it awaits has ended and it runs on
Continue(t) == task[t].pc # "idle" /\ SeqNext /\ task'[t] # task[t]

\* one activity at a time, and every activity that has started goes on as
\* long as it can
SpecFair == SpecSeq /\ \A t \in Tasks : WF_vars(Continue(t))

\* the work an execute() of caller p has done stays within its bounds
ExecBounds(p) ==
  call[p].op = "execute"
    => /\ call[p].invoked <= 2
       /\ call[p].protocols <= 2
       /\ call[p].connects <= 2 * maxAttempts

============================================================================
